---- MODULE Spec2Model ----
(***************************************************************************)
(* Model of the OnlysaidKB MCP server (src/src/onlysaidkb_mcp/server.py    *)
(* and main.py): the tools query_knowledge_base and                        *)
(* retrieve_from_knowledge_base, the three resources, the shared helper    *)
(* make_api_request, the module-level configuration and the startup.       *)
(* Three specifications: Spec (the running server, one invocation at a     *)
(* time), StartSpec (the process from its start) and ConcSpec (invocations *)
(* in flight concurrently).                                                *)
(*                                                                         *)
(* Python values are modelled as tagged records so that a mapping can hold *)
(* values of different types: None is [t |-> "null"], an int is            *)
(* [t |-> "int", v |-> i], a str [t |-> "str", v |-> s], a bool            *)
(* [t |-> "bool", v |-> b], a list of str [t |-> "list", v |-> seq] and a  *)
(* dict [t |-> "obj", v |-> f] with f a function from key strings.         *)
(***************************************************************************)
EXTENDS Integers, Sequences, FiniteSets, TLC

(***************************************************************************)
(* Bounds of the model.                                                    *)
(***************************************************************************)
\* caller-supplied top_k ranges over -1 .. MaxTopK
MaxTopK == 1
\* caller-supplied lists (knowledge_bases, conversation_history) have at
\* most MaxListLen elements
MaxListLen == 1
\* at most NumTasks invocations run concurrently
NumTasks == 2

(***************************************************************************)
(* Python values.                                                          *)
(***************************************************************************)
JNull == [t |-> "null"]
JInt(i) == [t |-> "int", v |-> i]
JStr(s) == [t |-> "str", v |-> s]
JBool(b) == [t |-> "bool", v |-> b]
JList(l) == [t |-> "list", v |-> l]
JObj(m) == [t |-> "obj", v |-> m]

\* Python truth value of an object, as tested by `if x:` and `x or y`
Truthy(x) ==
    CASE x.t = "null" -> FALSE
      [] x.t = "int"  -> x.v # 0
      [] x.t = "str"  -> x.v # ""
      [] x.t = "bool" -> x.v
      [] x.t = "list" -> Len(x.v) > 0
      [] x.t = "obj"  -> DOMAIN x.v # {}

\* Python `a or b`
PyOr(a, b) == IF Truthy(a) THEN a ELSE b

\* d[k] = v on a dict d (the dict as a function from its keys)
SetItem(d, k, val) == [x \in DOMAIN d \cup {k} |-> IF x = k THEN val ELSE d[x]]

\* type(x).__name__
TypeName(x) ==
    CASE x.t = "null" -> "NoneType"
      [] x.t = "int"  -> "int"
      [] x.t = "str"  -> "str"
      [] x.t = "bool" -> "bool"
      [] x.t = "list" -> "list"
      [] x.t = "obj"  -> "dict"

(***************************************************************************)
(* Configuration: the dataclass defaults are evaluated once, when the      *)
(* module is imported, from the process environment.                       *)
(***************************************************************************)
\* os.getenv(name, default) on an environment env (absent variables are JNull)
GetEnv(env, name, default) == IF env[name].t = "null" THEN default ELSE env[name].v

\* int(s) succeeds: s is an optionally signed decimal literal (among the
\* strings the model's environments hold)
IsIntLiteral(s) == s \in {"0", "5", "7", "30", "-3"}

\* int(s) for the decimal strings the model's environments hold
IntOfStr(s) ==
    CASE s = "0"  -> 0
      [] s = "5"  -> 5
      [] s = "7"  -> 7
      [] s = "30" -> 30
      [] s = "-3" -> -3

\* the class body of OnlysaidKBConfig evaluates without raising: both int()
\* calls get a literal
ConfigLoads(env) ==
    /\ IsIntLiteral(GetEnv(env, "ONLYSAIDKB_DEFAULT_TOP_K", "5"))
    /\ IsIntLiteral(GetEnv(env, "ONLYSAIDKB_TIMEOUT", "30"))

\* OnlysaidKBConfig with default_model a literal that never reads the
\* environment
OnlysaidKBConfig_IgnoresEnv(env) ==
    [ base_url         |-> GetEnv(env, "ONLYSAIDKB_BASE_URL", "http://onlysaid-dev.com/api/kb"),
      default_model    |-> "gpt-4",
      default_top_k    |-> IntOfStr(GetEnv(env, "ONLYSAIDKB_DEFAULT_TOP_K", "5")),
      default_language |-> GetEnv(env, "ONLYSAIDKB_DEFAULT_LANGUAGE", "en"),
      timeout          |-> IntOfStr(GetEnv(env, "ONLYSAIDKB_TIMEOUT", "30")) ]

OnlysaidKBConfig(env) ==
    [ base_url         |-> GetEnv(env, "ONLYSAIDKB_BASE_URL", "http://onlysaid-dev.com/api/kb"),
      default_model    |-> GetEnv(env, "ONLYSAIDKB_DEFAULT_MODEL", "gpt-4"),
      default_top_k    |-> IntOfStr(GetEnv(env, "ONLYSAIDKB_DEFAULT_TOP_K", "5")),
      default_language |-> GetEnv(env, "ONLYSAIDKB_DEFAULT_LANGUAGE", "en"),
      timeout          |-> IntOfStr(GetEnv(env, "ONLYSAIDKB_TIMEOUT", "30")) ]

\* the environments the server is started in
Environments ==
    [ ONLYSAIDKB_BASE_URL         : {JStr("http://kb")},
      ONLYSAIDKB_DEFAULT_MODEL    : {JNull},
      ONLYSAIDKB_DEFAULT_TOP_K    : {JNull, JStr("0"), JStr("7")},
      ONLYSAIDKB_DEFAULT_LANGUAGE : {JNull},
      ONLYSAIDKB_TIMEOUT          : {JNull} ]

(***************************************************************************)
(* Exceptions: records with the class name cls and the text msg of str(e); *)
(* an HTTPStatusError also carries the response (status, text).            *)
(***************************************************************************)
\* the direct base class of each exception class the handlers can meet
BaseClass(cls) ==
    CASE cls = "HTTPStatusError"  -> "HTTPError"
      [] cls = "ReadTimeout"      -> "TimeoutException"
      [] cls = "TimeoutException" -> "TransportError"
      [] cls = "ConnectError"     -> "TransportError"
      [] cls = "TransportError"   -> "RequestError"
      [] cls = "RequestError"     -> "HTTPError"
      [] cls = "HTTPError"        -> "Exception"
      [] cls = "JSONDecodeError"  -> "ValueError"
      [] cls = "ValueError"       -> "Exception"
      [] cls = "TypeError"        -> "Exception"
      [] cls = "AttributeError"   -> "Exception"
      [] cls = "Exception"        -> "BaseException"
      [] cls = "BaseException"    -> "object"

RECURSIVE IsSubclass(_, _)
IsSubclass(cls, base) ==
    IF cls = base THEN TRUE
    ELSE IF cls = "object" THEN FALSE
    ELSE IsSubclass(BaseClass(cls), base)

\* `except base as e` matches e
IsInstance(e, base) == IsSubclass(e.cls, base)

\* outcome of a Python expression: a value, or a raised exception
Ok(val) == [ok |-> TRUE, value |-> val]
Raise(e) == [ok |-> FALSE, exc |-> e]

(***************************************************************************)
(* The backend as seen through httpx: a response (status, body text), or a *)
(* transport failure raised by the client.                                 *)
(***************************************************************************)
Statuses == {200, 302, 404, 500}

BodyTexts ==
    { "{\"status\":\"ok\"}",
      "{\"error\":\"no such kb\",\"status_code\":7}",
      "{\"_debug\":\"x\"}",
      "[\"doc1\"]", "\"ok\"", "7", "null",
      "not found", "" }

\* the body texts a resource read can meet: those above and a /view answer
ResourceBodyTexts ==
    BodyTexts \cup { "{\"dataSources\":[\"kb-1\"],\"documents\":[]}" }

TransportFailures ==
    { [cls |-> "ReadTimeout",  msg |-> ""],
      [cls |-> "ConnectError", msg |-> "All connection attempts failed"],
      [cls |-> "ConnectError", msg |-> "[Errno -2] Name or service not known"] }

\* response.json(): json.loads of the body text
JsonLoads(text) ==
    CASE text = "{\"status\":\"ok\"}" -> Ok(JObj([status |-> JStr("ok")]))
      [] text = "{\"error\":\"no such kb\",\"status_code\":7}" ->
             Ok(JObj([error |-> JStr("no such kb"), status_code |-> JInt(7)]))
      [] text = "{\"_debug\":\"x\"}" -> Ok(JObj([_debug |-> JStr("x")]))
      [] text = "[\"doc1\"]" -> Ok(JList(<<"doc1">>))
      [] text = "\"ok\"" -> Ok(JStr("ok"))
      [] text = "7" -> Ok(JInt(7))
      [] text = "null" -> Ok(JNull)
      [] text = "{\"dataSources\":[\"kb-1\"],\"documents\":[]}" ->
             Ok(JObj([dataSources |-> JList(<<"kb-1">>), documents |-> JList(<<>>)]))
      [] OTHER -> Raise([cls |-> "JSONDecodeError",
                         msg |-> "Expecting value: line 1 column 1 (char 0)"])

\* response.raise_for_status(): a 4xx or 5xx status always raises; whether a
\* 3xx status raises depends on the httpx release, so the response carries
\* that choice in redirect_raises
RaiseForStatus(resp) ==
    IF resp.status >= 400 \/ (resp.status \in 300..399 /\ resp.redirect_raises)
    THEN Raise([cls |-> "HTTPStatusError", msg |-> "status error",
                status |-> resp.status, text |-> resp.text])
    ELSE Ok(JNull)

(***************************************************************************)
(* make_api_request, split at its await: the request it issues, and what   *)
(* it returns or raises once the network outcome net is known.             *)
(***************************************************************************)
\* make_api_request_send without the GET branch: every request is a POST
make_api_request_send_AlwaysPost(cfg, endpoint, data, method) ==
    [method |-> "POST", url |-> cfg.base_url \o endpoint, body |-> data,
     timeout |-> cfg.timeout]

make_api_request_send(cfg, endpoint, data, method) ==
    IF method = "GET"
    THEN [method |-> "GET", url |-> cfg.base_url \o endpoint, body |-> JNull,
          timeout |-> cfg.timeout]
    ELSE [method |-> "POST", url |-> cfg.base_url \o endpoint, body |-> data,
          timeout |-> cfg.timeout]

\* make_api_request_recv with the body decoded before the status is checked
make_api_request_recv_DecodeFirst(net) ==
    IF net.kind = "exception" THEN Raise(net.exc)
    ELSE IF ~JsonLoads(net.resp.text).ok THEN JsonLoads(net.resp.text)
    ELSE IF ~RaiseForStatus(net.resp).ok THEN RaiseForStatus(net.resp)
    ELSE JsonLoads(net.resp.text)

make_api_request_recv(net) ==
    IF net.kind = "exception" THEN Raise(net.exc)
    ELSE IF ~RaiseForStatus(net.resp).ok THEN RaiseForStatus(net.resp)
    ELSE JsonLoads(net.resp.text)

(***************************************************************************)
(* The tools.  A tool's outcome is [kind |-> "return", value |-> v] or,    *)
(* when an exception leaves the function, [kind |-> "raise", exc |-> e].   *)
(***************************************************************************)
Return(val) == [kind |-> "return", value |-> val]
Propagate(e) == [kind |-> "raise", exc |-> e]

\* AddIfTruthy changed to `if val is not None: payload[k] = val`
AddIfNotNone(payload, k, val) ==
    IF val.t # "null" THEN SetItem(payload, k, val) ELSE payload

\* `if val: payload[k] = val`
AddIfTruthy(payload, k, val) ==
    IF Truthy(val) THEN SetItem(payload, k, val) ELSE payload

\* PySetItem changed to build a fresh dict holding only the new key
PySetItem_Fresh(obj, k, val) ==
    IF obj.t = "obj" THEN Ok(JObj(SetItem(<<>>, k, val)))
    ELSE IF obj.t = "list"
    THEN Raise([cls |-> "TypeError",
                msg |-> "list indices must be integers or slices, not str"])
    ELSE Raise([cls |-> "TypeError",
                msg |-> "'" \o TypeName(obj) \o "' object does not support item assignment"])

\* obj[k] = val as a statement: only a dict accepts a str key
PySetItem(obj, k, val) ==
    IF obj.t = "obj" THEN Ok(JObj(SetItem(obj.v, k, val)))
    ELSE IF obj.t = "list"
    THEN Raise([cls |-> "TypeError",
                msg |-> "list indices must be integers or slices, not str"])
    ELSE Raise([cls |-> "TypeError",
                msg |-> "'" \o TypeName(obj) \o "' object does not support item assignment"])

\* QueryPayload changed to pass the caller's wish for an in-progress answer
\* through: streaming follows whether a message_id is tracked
QueryPayload_StreamByMessage(a) ==
    LET p0 == [workspace_id |-> a.workspace_id, query |-> a.query,
               streaming |-> JBool(Truthy(a.message_id))]
        p1 == AddIfTruthy(p0, "knowledge_bases", a.knowledge_bases)
        p2 == AddIfTruthy(p1, "conversation_history", a.conversation_history)
        p3 == AddIfTruthy(p2, "top_k", a.top_k)
        p4 == AddIfTruthy(p3, "model", a.model)
        p5 == AddIfTruthy(p4, "preferred_language", a.preferred_language)
    IN  AddIfTruthy(p5, "message_id", a.message_id)

\* QueryPayload with the query copied in only when it is truthy, like the
\* optional arguments
QueryPayload_DropsEmptyQuery(a) ==
    LET p0 == [workspace_id |-> a.workspace_id, streaming |-> JBool(FALSE)]
        pq == AddIfTruthy(p0, "query", a.query)
        p1 == AddIfTruthy(pq, "knowledge_bases", a.knowledge_bases)
        p2 == AddIfTruthy(p1, "conversation_history", a.conversation_history)
        p3 == AddIfTruthy(p2, "top_k", a.top_k)
        p4 == AddIfTruthy(p3, "model", a.model)
        p5 == AddIfTruthy(p4, "preferred_language", a.preferred_language)
    IN  AddIfTruthy(p5, "message_id", a.message_id)

\* the payload query_knowledge_base builds from its arguments
QueryPayload(a) ==
    LET p0 == [workspace_id |-> a.workspace_id, query |-> a.query,
               streaming |-> JBool(FALSE)]
        p1 == AddIfTruthy(p0, "knowledge_bases", a.knowledge_bases)
        p2 == AddIfTruthy(p1, "conversation_history", a.conversation_history)
        p3 == AddIfTruthy(p2, "top_k", a.top_k)
        p4 == AddIfTruthy(p3, "model", a.model)
        p5 == AddIfTruthy(p4, "preferred_language", a.preferred_language)
    IN  AddIfTruthy(p5, "message_id", a.message_id)

\* RetrievePayload changed to copy knowledge_bases whenever it is not None
RetrievePayload_KbNotNone(a, cfg) ==
    LET p0 == [workspace_id |-> a.workspace_id, query |-> a.query,
               top_k |-> PyOr(a.top_k, JInt(cfg.default_top_k))]
    IN  IF a.knowledge_bases.t # "null"
        THEN SetItem(p0, "knowledge_bases", a.knowledge_bases) ELSE p0

\* RetrievePayload changed to fall back to the literal 5 of the docstring
RetrievePayload_Literal5(a, cfg) ==
    LET p0 == [workspace_id |-> a.workspace_id, query |-> a.query,
               top_k |-> PyOr(a.top_k, JInt(5))]
    IN  AddIfTruthy(p0, "knowledge_bases", a.knowledge_bases)

\* RetrievePayload changed to take the caller's top_k only when positive
RetrievePayload_PositiveOnly(a, cfg) ==
    LET p0 == [workspace_id |-> a.workspace_id, query |-> a.query,
               top_k |-> IF a.top_k.t = "int" /\ a.top_k.v > 0
                         THEN a.top_k ELSE JInt(cfg.default_top_k)]
    IN  AddIfTruthy(p0, "knowledge_bases", a.knowledge_bases)

\* the payload retrieve_from_knowledge_base builds from its arguments
RetrievePayload(a, cfg) ==
    LET p0 == [workspace_id |-> a.workspace_id, query |-> a.query,
               top_k |-> PyOr(a.top_k, JInt(cfg.default_top_k))]
    IN  AddIfTruthy(p0, "knowledge_bases", a.knowledge_bases)

\* QueryTry with the debug block copied from the retrieve tool
QueryTry_RetrieveDebug(payload, cfg, r) ==
    IF ~r.ok THEN r
    ELSE PySetItem(r.value, "_debug",
           JObj([ retrieval_parameters |-> JObj(payload),
                  endpoint_used        |-> JStr("/retrieve"),
                  config_used          |-> JObj(
                      [ base_url      |-> JStr(cfg.base_url),
                        default_top_k |-> JInt(cfg.default_top_k) ]) ]))

\* the try block of query_knowledge_base, given what make_api_request gave
QueryTry(payload, cfg, r) ==
    IF ~r.ok THEN r
    ELSE PySetItem(r.value, "_debug",
           JObj([ query_parameters |-> JObj(payload),
                  endpoint_used    |-> JStr("/query"),
                  config_used      |-> JObj(
                      [ base_url         |-> JStr(cfg.base_url),
                        default_model    |-> JStr(cfg.default_model),
                        default_top_k    |-> JInt(cfg.default_top_k),
                        default_language |-> JStr(cfg.default_language) ]) ]))

\* QueryExcept without the catch-all `except Exception` clause
QueryExcept_NoCatchAll(payload, e) ==
    IF IsInstance(e, "HTTPStatusError")
    THEN Return(JObj(
           [ error       |-> JStr("HTTP " \o ToString(e.status) \o ": " \o e.text),
             status_code |-> JInt(e.status),
             _debug      |-> JObj([ query_parameters |-> JObj(payload),
                                    endpoint_used    |-> JStr("/query"),
                                    error_type       |-> JStr("http_error") ]) ]))
    ELSE Propagate(e)

\* QueryExcept with the failing response attached to the debug block
QueryExcept_ExtraDebug(payload, e) ==
    IF IsInstance(e, "HTTPStatusError")
    THEN Return(JObj(
           [ error       |-> JStr("HTTP " \o ToString(e.status) \o ": " \o e.text),
             status_code |-> JInt(e.status),
             _debug      |-> JObj([ query_parameters |-> JObj(payload),
                                    endpoint_used    |-> JStr("/query"),
                                    error_type       |-> JStr("http_error"),
                                    response_text    |-> JStr(e.text) ]) ]))
    ELSE IF IsInstance(e, "Exception")
    THEN Return(JObj(
           [ error  |-> JStr(e.msg),
             _debug |-> JObj([ query_parameters |-> JObj(payload),
                               endpoint_used    |-> JStr("/query"),
                               error_type       |-> JStr("general_error") ]) ]))
    ELSE Propagate(e)

\* the except clauses of query_knowledge_base
QueryExcept(payload, e) ==
    IF IsInstance(e, "HTTPStatusError")
    THEN Return(JObj(
           [ error       |-> JStr("HTTP " \o ToString(e.status) \o ": " \o e.text),
             status_code |-> JInt(e.status),
             _debug      |-> JObj([ query_parameters |-> JObj(payload),
                                    endpoint_used    |-> JStr("/query"),
                                    error_type       |-> JStr("http_error") ]) ]))
    ELSE IF IsInstance(e, "Exception")
    THEN Return(JObj(
           [ error  |-> JStr(e.msg),
             _debug |-> JObj([ query_parameters |-> JObj(payload),
                               endpoint_used    |-> JStr("/query"),
                               error_type       |-> JStr("general_error") ]) ]))
    ELSE Propagate(e)

\* what query_knowledge_base gives its caller once the request has completed
QueryFinish(payload, cfg, r) ==
    LET t == QueryTry(payload, cfg, r)
    IN  IF t.ok THEN Return(t.value) ELSE QueryExcept(payload, t.exc)

\* RetrieveTry with config_used copied from the query tool
RetrieveTry_QueryConfig(payload, cfg, r) ==
    IF ~r.ok THEN r
    ELSE PySetItem(r.value, "_debug",
           JObj([ retrieval_parameters |-> JObj(payload),
                  endpoint_used        |-> JStr("/retrieve"),
                  config_used          |-> JObj(
                      [ base_url         |-> JStr(cfg.base_url),
                        default_model    |-> JStr(cfg.default_model),
                        default_top_k    |-> JInt(cfg.default_top_k),
                        default_language |-> JStr(cfg.default_language) ]) ]))

\* the try block of retrieve_from_knowledge_base
RetrieveTry(payload, cfg, r) ==
    IF ~r.ok THEN r
    ELSE PySetItem(r.value, "_debug",
           JObj([ retrieval_parameters |-> JObj(payload),
                  endpoint_used        |-> JStr("/retrieve"),
                  config_used          |-> JObj(
                      [ base_url      |-> JStr(cfg.base_url),
                        default_top_k |-> JInt(cfg.default_top_k) ]) ]))

\* RetrieveExcept with the catch-all clause copied from the status clause:
\* it keeps the label "http_error"
RetrieveExcept_Mislabelled(payload, e) ==
    IF IsInstance(e, "HTTPStatusError")
    THEN Return(JObj(
           [ error       |-> JStr("HTTP " \o ToString(e.status) \o ": " \o e.text),
             status_code |-> JInt(e.status),
             _debug      |-> JObj([ retrieval_parameters |-> JObj(payload),
                                    endpoint_used        |-> JStr("/retrieve"),
                                    error_type           |-> JStr("http_error") ]) ]))
    ELSE IF IsInstance(e, "Exception")
    THEN Return(JObj(
           [ error  |-> JStr(e.msg),
             _debug |-> JObj([ retrieval_parameters |-> JObj(payload),
                               endpoint_used        |-> JStr("/retrieve"),
                               error_type           |-> JStr("http_error") ]) ]))
    ELSE Propagate(e)

\* RetrieveExcept with the status clause leaving out status_code
RetrieveExcept_NoStatusCode(payload, e) ==
    IF IsInstance(e, "HTTPStatusError")
    THEN Return(JObj(
           [ error  |-> JStr("HTTP " \o ToString(e.status) \o ": " \o e.text),
             _debug |-> JObj([ retrieval_parameters |-> JObj(payload),
                               endpoint_used        |-> JStr("/retrieve"),
                               error_type           |-> JStr("http_error") ]) ]))
    ELSE IF IsInstance(e, "Exception")
    THEN Return(JObj(
           [ error  |-> JStr(e.msg),
             _debug |-> JObj([ retrieval_parameters |-> JObj(payload),
                               endpoint_used        |-> JStr("/retrieve"),
                               error_type           |-> JStr("general_error") ]) ]))
    ELSE Propagate(e)

\* the except clauses of retrieve_from_knowledge_base
RetrieveExcept(payload, e) ==
    IF IsInstance(e, "HTTPStatusError")
    THEN Return(JObj(
           [ error       |-> JStr("HTTP " \o ToString(e.status) \o ": " \o e.text),
             status_code |-> JInt(e.status),
             _debug      |-> JObj([ retrieval_parameters |-> JObj(payload),
                                    endpoint_used        |-> JStr("/retrieve"),
                                    error_type           |-> JStr("http_error") ]) ]))
    ELSE IF IsInstance(e, "Exception")
    THEN Return(JObj(
           [ error  |-> JStr(e.msg),
             _debug |-> JObj([ retrieval_parameters |-> JObj(payload),
                               endpoint_used        |-> JStr("/retrieve"),
                               error_type           |-> JStr("general_error") ]) ]))
    ELSE Propagate(e)

\* what retrieve_from_knowledge_base gives its caller
RetrieveFinish(payload, cfg, r) ==
    LET t == RetrieveTry(payload, cfg, r)
    IN  IF t.ok THEN Return(t.value) ELSE RetrieveExcept(payload, t.exc)

(***************************************************************************)
(* json.dumps(x, indent=2).                                                *)
(***************************************************************************)
\* the keys of a decoded object in document order (dicts keep that order)
KeyOrder(m) ==
    CASE DOMAIN m = {} -> <<>>
      [] DOMAIN m = {"status"} -> <<"status">>
      [] DOMAIN m = {"error", "status_code"} -> <<"error", "status_code">>
      [] DOMAIN m = {"_debug"} -> <<"_debug">>
      [] DOMAIN m = {"dataSources", "documents"} -> <<"dataSources", "documents">>

\* sep.join(parts)
RECURSIVE Join(_, _)
Join(parts, sep) ==
    IF parts = <<>> THEN ""
    ELSE IF Len(parts) = 1 THEN parts[1]
    ELSE parts[1] \o sep \o Join(Tail(parts), sep)

\* a str as a JSON string literal (the model's strings need no escaping)
Quoted(str) == "\"" \o str \o "\""

\* json.dumps(x, indent=2) of a value nested under the indentation ind
RECURSIVE JsonDumpsAt(_, _)
JsonDumpsAt(x, ind) ==
    CASE x.t = "null" -> "null"
      [] x.t = "int"  -> ToString(x.v)
      [] x.t = "str"  -> Quoted(x.v)
      [] x.t = "bool" -> IF x.v THEN "true" ELSE "false"
      [] x.t = "list" ->
           IF x.v = <<>> THEN "[]"
           ELSE "[\n"
                \o Join([i \in 1..Len(x.v) |-> ind \o "  " \o Quoted(x.v[i])], ",\n")
                \o "\n" \o ind \o "]"
      [] x.t = "obj"  ->
           IF DOMAIN x.v = {} THEN "{}"
           ELSE "{\n"
                \o Join([i \in 1..Len(KeyOrder(x.v)) |->
                           ind \o "  " \o Quoted(KeyOrder(x.v)[i]) \o ": "
                           \o JsonDumpsAt(x.v[KeyOrder(x.v)[i]], ind \o "  ")], ",\n")
                \o "\n" \o ind \o "}"

JsonDumps(x) == JsonDumpsAt(x, "")

(***************************************************************************)
(* The resources: each returns text.                                       *)
(***************************************************************************)
\* obj.get(k, default): only a dict has the method get
PyGet(obj, k, default) ==
    IF obj.t = "obj"
    THEN Ok(IF k \in DOMAIN obj.v THEN obj.v[k] ELSE default)
    ELSE Raise([cls |-> "AttributeError",
                msg |-> "'" \o TypeName(obj) \o "' object has no attribute 'get'"])

\* the paths the resources request
ViewPath(workspace_id) == "/view/" \o workspace_id
KbStatusPath(workspace_id, kb_id) == "/kb_status/" \o workspace_id \o "/" \o kb_id

\* `except Exception as e: return f"{prefix}{str(e)}"`
ResourceExcept(prefix, e) ==
    IF IsInstance(e, "Exception") THEN Return(JStr(prefix \o e.msg))
    ELSE Propagate(e)

\* list_knowledge_bases_resource changed to serialize the whole answer
ListKnowledgeBasesFinish_Whole(r) ==
    IF ~r.ok THEN ResourceExcept("Error retrieving knowledge bases: ", r.exc)
    ELSE Return(JStr(JsonDumps(r.value)))

\* list_knowledge_bases_resource once its request has completed
ListKnowledgeBasesFinish(r) ==
    IF ~r.ok THEN ResourceExcept("Error retrieving knowledge bases: ", r.exc)
    ELSE LET g == PyGet(r.value, "dataSources", JList(<<>>))
         IN  IF g.ok THEN Return(JStr(JsonDumps(g.value)))
             ELSE ResourceExcept("Error retrieving knowledge bases: ", g.exc)

\* knowledge_base_status_resource without its try/except
KbStatusFinish_NoExcept(r) ==
    IF ~r.ok THEN Propagate(r.exc)
    ELSE Return(JStr(JsonDumps(r.value)))

\* knowledge_base_status_resource once its request has completed
KbStatusFinish(r) ==
    IF ~r.ok THEN ResourceExcept("Error retrieving knowledge base status: ", r.exc)
    ELSE Return(JStr(JsonDumps(r.value)))

\* workspace_structure_resource once its request has completed
WorkspaceStructureFinish(r) ==
    IF ~r.ok THEN ResourceExcept("Error retrieving workspace structure: ", r.exc)
    ELSE Return(JStr(JsonDumps(r.value)))

\* leaving `async with httpx.AsyncClient(...)` but keeping the client open
\* when the block raised
ClientScopeExit_LeakOnRaise(r) == IF r.ok THEN "closed" ELSE "open"

\* leaving `async with httpx.AsyncClient(...)`: the client is closed whether
\* the block returned or raised
ClientScopeExit(r) == "closed"

(***************************************************************************)
(* Arguments the host can pass (already validated against the signature).  *)
(***************************************************************************)
OptStr(strs) == {JNull} \cup {JStr(s) : s \in strs}

RECURSIVE SeqsUpTo(_, _)
SeqsUpTo(S, n) ==
    IF n = 0 THEN {<<>>}
    ELSE SeqsUpTo(S, n - 1) \cup
         {Append(q, x) : q \in {z \in SeqsUpTo(S, n - 1) : Len(z) = n - 1}, x \in S}

OptList(S) == {JNull} \cup {JList(q) : q \in SeqsUpTo(S, MaxListLen)}

OptInt == {JNull} \cup {JInt(i) : i \in (-1)..MaxTopK}

QueryArgs ==
    [ workspace_id         : {JStr("ws-1")},
      query                : {JStr(""), JStr("what is x")},
      knowledge_bases      : OptList({"kb-1"}),
      model                : OptStr({"", "gpt-4o"}),
      conversation_history : OptList({"hi"}),
      top_k                : OptInt,
      preferred_language   : OptStr({"", "zh"}),
      message_id           : OptStr({"", "m-1"}) ]

RetrieveArgs ==
    [ workspace_id    : {JStr("ws-1")},
      query           : {JStr(""), JStr("what is x")},
      knowledge_bases : OptList({"kb-1"}),
      top_k           : OptInt ]

\* the arguments of the resource reads
ResourceWorkspaces == {"ws-1", "ws-2"}
ResourceKbIds == {"kb-1"}

NetOutcomesOver(texts) ==
    { [kind |-> "response",
       resp |-> [status |-> s, text |-> b, redirect_raises |-> rr]] :
         s \in Statuses, b \in texts, rr \in BOOLEAN }
    \cup { [kind |-> "exception", exc |-> e] : e \in TransportFailures }

NetOutcomes == NetOutcomesOver(BodyTexts)

ResourceNetOutcomes == NetOutcomesOver(ResourceBodyTexts)

(***************************************************************************)
(* Startup (src/src/onlysaidkb_mcp/main.py and the __main__ block of       *)
(* server.py).  The process is a record: its phase, the entry point it was *)
(* started by, what setup_environment returned, its exit code, the lines   *)
(* it printed and the transport mcp.run was started with.                  *)
(***************************************************************************)
\* the lines setup_environment prints for the variables of names
EnvLines(env, names, default) ==
    [i \in 1..Len(names) |-> "  " \o names[i] \o ": " \o GetEnv(env, names[i], default)]

\* setup_environment changed to return True on every path
setup_environment_AlwaysTrue(env) ==
    LET required == <<"ONLYSAIDKB_BASE_URL">>
        missing  == SelectSeq(required, LAMBDA v : ~Truthy(env[v]))
        head     == <<"[CONFIG] OnlysaidKB MCP Server Configuration:">>
                    \o EnvLines(env, SelectSeq(required, LAMBDA v : Truthy(env[v])), "")
    IN  [ ok |-> TRUE,
          stdout |-> head \o EnvLines(env,
                        <<"ONLYSAIDKB_DEFAULT_MODEL", "ONLYSAIDKB_DEFAULT_TOP_K",
                          "ONLYSAIDKB_DEFAULT_LANGUAGE">>, "default") ]

\* setup_environment(): what it returns and what it prints
setup_environment(env) ==
    LET required == <<"ONLYSAIDKB_BASE_URL">>
        missing  == SelectSeq(required, LAMBDA v : ~Truthy(env[v]))
        head     == <<"[CONFIG] OnlysaidKB MCP Server Configuration:">>
                    \o EnvLines(env, SelectSeq(required, LAMBDA v : Truthy(env[v])), "")
    IN  IF missing # <<>>
        THEN [ ok |-> FALSE,
               stdout |-> head \o
                 << "[ERROR] Missing required environment variables: " \o Join(missing, ", "),
                    "\n[INFO] Set these environment variables:",
                    "  export ONLYSAIDKB_BASE_URL='http://localhost:8000'  # Your OnlysaidKB API base URL",
                    "  export ONLYSAIDKB_DEFAULT_MODEL='gpt-4'  # Optional, default model",
                    "  export ONLYSAIDKB_DEFAULT_TOP_K='5'  # Optional, default top K results",
                    "  export ONLYSAIDKB_DEFAULT_LANGUAGE='en'  # Optional, default language" >> ]
        ELSE [ ok |-> TRUE,
               stdout |-> head \o EnvLines(env,
                        <<"ONLYSAIDKB_DEFAULT_MODEL", "ONLYSAIDKB_DEFAULT_TOP_K",
                          "ONLYSAIDKB_DEFAULT_LANGUAGE">>, "default") ]

\* the process as it is started by an entry point: "main" is run_server of
\* main.py, "server" is server.py run as a script
ProcStarted(entry) ==
    [ phase |-> "start", entry |-> entry, setup_ok |-> FALSE,
      exit_code |-> JNull, stdout |-> <<>>, transport |-> "none" ]

\* the server module has been imported (or, as a script, run up to its
\* __main__ block)
ProcImported(p) == [p EXCEPT !.phase = "imported"]

\* an int() of the class body raised ValueError while the module was being
\* loaded: the interpreter prints the traceback (on stderr) and the process
\* ends with exit status 1
ProcCrashed(p) == [p EXCEPT !.phase = "crashed", !.exit_code = JInt(1)]

\* run_server has called setup_environment
ProcChecked(p, env) ==
    [p EXCEPT !.phase = "checked",
              !.setup_ok = setup_environment(env).ok,
              !.stdout = p.stdout \o setup_environment(env).stdout]

\* run_server: sys.exit(1)
ProcExited(p) == [p EXCEPT !.phase = "exited", !.exit_code = JInt(1)]

\* run_server: the banner, then mcp.run(transport="stdio")
ProcRunning(p) ==
    [p EXCEPT !.phase = "running",
              !.transport = "stdio",
              !.stdout = p.stdout \o
                 << "\n[START] Starting OnlysaidKB MCP Server...",
                    "[MODE] Running server in standard mode...",
                    "[OPS] Available operations: query_knowledge_base, retrieve_from_knowledge_base" >>]

\* server.py as a script: the banner (its leading emoji left out), then
\* mcp.run(), whose default transport is stdio
ProcServerMain(p) ==
    [p EXCEPT !.phase = "running",
              !.transport = "stdio",
              !.stdout = p.stdout \o << "Starting OnlysaidKB MCP Server..." >>]

\* the environments and arguments of the startup specification
StartEnvironments ==
    [ ONLYSAIDKB_BASE_URL         : {JNull, JStr("http://kb")},
      ONLYSAIDKB_DEFAULT_MODEL    : {JNull, JStr("gpt-4o")},
      ONLYSAIDKB_DEFAULT_TOP_K    : {JNull, JStr("0"), JStr("7"), JStr("-3"), JStr("abc")},
      ONLYSAIDKB_DEFAULT_LANGUAGE : {JNull, JStr("zh")},
      ONLYSAIDKB_TIMEOUT          : {JNull, JStr("5"), JStr("0")} ]

StartQueryArgs ==
    [ workspace_id         : {JStr("ws-1")},
      query                : {JStr("what is x")},
      knowledge_bases      : {JNull},
      model                : {JNull, JStr("gpt-4o")},
      conversation_history : {JNull},
      top_k                : {JNull},
      preferred_language   : {JNull},
      message_id           : {JNull} ]

StartRetrieveArgs ==
    [ workspace_id    : {JStr("ws-1")},
      query           : {JStr("what is x")},
      knowledge_bases : {JNull},
      top_k           : {JNull, JInt(1)} ]

(***************************************************************************)
(* State: the process, and one invocation at a time, from call to return.  *)
(***************************************************************************)
VARIABLES
    env,       \* the process environment (after dotenv), absent names JNull
    proc,      \* the process: phase, entry, setup_ok, exit_code, stdout, transport
    config,    \* the module-level OnlysaidKBConfig instance
    pc,        \* "idle", "awaiting" (inside make_api_request), "done"
    tool,      \* "none", a tool or a resource
    args,      \* the arguments of the running invocation
    payload,   \* the payload it built
    request,   \* the request make_api_request issued
    net,       \* the network outcome of that request
    outcome,   \* what the tool gave its caller
    client,    \* the invocation's httpx.AsyncClient: "none", "open", "closed"
    sent,      \* the number of requests the invocation has issued
    tasks      \* the coroutines of concurrently running invocations, each
               \* with its own frame (see IdleTask)

vars == <<env, proc, config, pc, tool, args, payload, request, net, outcome,
          client, sent, tasks>>

\* the coroutines the event loop has in flight at once
Tasks == 1..NumTasks

\* the frame of a coroutine that is not running: the locals of the tool or
\* resource function (args, payload), those of make_api_request (request,
\* client, and the response or failure its await resumed with, net), the
\* answer travelling on the client's own connection, and the outcome
IdleTask ==
    [ pc |-> "idle", tool |-> "none", args |-> JNull, payload |-> JNull,
      request |-> JNull, answer |-> JNull, net |-> JNull, outcome |-> JNull,
      client |-> "none", sent |-> 0 ]

\* no invocation is running
Idle ==
    /\ pc = "idle"
    /\ tool = "none"
    /\ args = JNull
    /\ payload = JNull
    /\ request = JNull
    /\ net = JNull
    /\ outcome = JNull
    /\ client = "none"
    /\ sent = 0

\* the server running, started by run_server in an environment that has the
\* base URL
Init ==
    /\ env \in Environments
    /\ proc = ProcRunning(ProcChecked(ProcImported(ProcStarted("main")), env))
    /\ config = OnlysaidKBConfig(env)
    /\ Idle
    /\ tasks = [t \in Tasks |-> IdleTask]

\* make_api_request up to its await: the client scope is opened and the
\* one request is issued
Issue(endpoint, data, method) ==
    /\ request' = make_api_request_send(config, endpoint, data, method)
    /\ client' = "open"
    /\ sent' = sent + 1
    /\ pc' = "awaiting"

\* retrieve_from_knowledge_base changed to remember the caller's top_k as
\* the new default
RetrieveCallOn_CachesTopK(A) ==
    /\ proc.phase = "running"
    /\ pc = "idle"
    /\ \E a \in A :
         /\ args' = a
         /\ payload' = RetrievePayload(a, config)
         /\ Issue("/retrieve", JObj(RetrievePayload(a, config)), "POST")
         /\ config' = [config EXCEPT
                         !.default_top_k = RetrievePayload(a, config).top_k.v]
    /\ tool' = "retrieve"
    /\ UNCHANGED <<tasks, env, proc, net, outcome>>

\* the host calls query_knowledge_base with arguments of A: the payload is
\* built and the POST to /query is issued
QueryCallOn(A) ==
    /\ proc.phase = "running"
    /\ pc = "idle"
    /\ \E a \in A :
         /\ args' = a
         /\ payload' = QueryPayload(a)
         /\ Issue("/query", JObj(QueryPayload(a)), "POST")
    /\ tool' = "query"
    /\ UNCHANGED <<tasks, env, proc, config, net, outcome>>

\* the host calls retrieve_from_knowledge_base with arguments of A
RetrieveCallOn(A) ==
    /\ proc.phase = "running"
    /\ pc = "idle"
    /\ \E a \in A :
         /\ args' = a
         /\ payload' = RetrievePayload(a, config)
         /\ Issue("/retrieve", JObj(RetrievePayload(a, config)), "POST")
    /\ tool' = "retrieve"
    /\ UNCHANGED <<tasks, env, proc, config, net, outcome>>

QueryCall == QueryCallOn(QueryArgs)

RetrieveCall == RetrieveCallOn(RetrieveArgs)

\* the host reads onlysaidkb://workspace/{workspace_id}/knowledge_bases
ListKnowledgeBasesCall ==
    /\ proc.phase = "running"
    /\ pc = "idle"
    /\ \E w \in ResourceWorkspaces :
         /\ args' = [workspace_id |-> w]
         /\ Issue(ViewPath(w), JNull, "GET")
    /\ tool' = "list_knowledge_bases"
    /\ UNCHANGED <<tasks, env, proc, config, payload, net, outcome>>

\* the host reads onlysaidkb://workspace/{workspace_id}/kb/{kb_id}/status
KbStatusCall ==
    /\ proc.phase = "running"
    /\ pc = "idle"
    /\ \E w \in ResourceWorkspaces, k \in ResourceKbIds :
         /\ args' = [workspace_id |-> w, kb_id |-> k]
         /\ Issue(KbStatusPath(w, k), JNull, "GET")
    /\ tool' = "kb_status"
    /\ UNCHANGED <<tasks, env, proc, config, payload, net, outcome>>

\* the host reads onlysaidkb://workspace/{workspace_id}/structure
WorkspaceStructureCall ==
    /\ proc.phase = "running"
    /\ pc = "idle"
    /\ \E w \in ResourceWorkspaces :
         /\ args' = [workspace_id |-> w]
         /\ Issue(ViewPath(w), JNull, "GET")
    /\ tool' = "workspace_structure"
    /\ UNCHANGED <<tasks, env, proc, config, payload, net, outcome>>

\* the tool or resource tl from the return of make_api_request, r, to its
\* own return, with the payload pl of its frame
ToolFinish(tl, pl, cfg, r) ==
    CASE tl = "query" -> QueryFinish(pl, cfg, r)
      [] tl = "retrieve" -> RetrieveFinish(pl, cfg, r)
      [] tl = "list_knowledge_bases" -> ListKnowledgeBasesFinish(r)
      [] tl = "kb_status" -> KbStatusFinish(r)
      [] tl = "workspace_structure" -> WorkspaceStructureFinish(r)

\* the awaited request completes with network outcome n: the client scope
\* is left and the tool or resource runs to its return
Finish(n) ==
    /\ net' = n
    /\ client' = ClientScopeExit(make_api_request_recv(n))
    /\ outcome' = ToolFinish(tool, payload, config, make_api_request_recv(n))
    /\ pc' = "done"
    /\ UNCHANGED <<tasks, env, proc, config, tool, args, payload, request, sent>>

\* the network outcomes the running invocation can meet
OutcomesHere ==
    IF tool \in {"query", "retrieve"} THEN NetOutcomes ELSE ResourceNetOutcomes

\* the backend answers with an HTTP response
Respond ==
    /\ pc = "awaiting"
    /\ \E n \in {o \in OutcomesHere : o.kind = "response"} : Finish(n)

\* the request fails in transport (timeout, refused connection, DNS)
Fail ==
    /\ pc = "awaiting"
    /\ \E n \in {o \in OutcomesHere : o.kind = "exception"} : Finish(n)

\* the host takes the outcome; the invocation's state is discarded
Deliver ==
    /\ pc = "done"
    /\ pc' = "idle"
    /\ tool' = "none"
    /\ args' = JNull
    /\ payload' = JNull
    /\ request' = JNull
    /\ net' = JNull
    /\ outcome' = JNull
    /\ client' = "none"
    /\ sent' = 0
    /\ UNCHANGED <<tasks, env, proc, config>>

Next ==
    \/ QueryCall \/ RetrieveCall
    \/ ListKnowledgeBasesCall \/ KbStatusCall \/ WorkspaceStructureCall
    \/ Respond \/ Fail \/ Deliver

Spec == Init /\ [][Next]_vars

(***************************************************************************)
(* The startup specification: the process from its start, by either entry  *)
(* point and in environments with or without the base URL, then serving.   *)
(***************************************************************************)
StartInit ==
    /\ env \in StartEnvironments
    /\ proc \in {ProcStarted(e) : e \in {"main", "server"}}
    /\ config = JNull
    /\ Idle
    /\ tasks = [t \in Tasks |-> IdleTask]

\* the server module is loaded: the dataclass defaults are read from the
\* environment and the config instance is created
Import ==
    /\ proc.phase = "start"
    /\ ConfigLoads(env)
    /\ proc' = ProcImported(proc)
    /\ config' = OnlysaidKBConfig(env)
    /\ UNCHANGED <<tasks, env, pc, tool, args, payload, request, net, outcome, client, sent>>

\* the server module fails to load: int() raises ValueError on a setting
\* that is not a decimal literal, no config instance is created and the
\* process ends before run_server or mcp.run is reached
ImportFails ==
    /\ proc.phase = "start"
    /\ ~ConfigLoads(env)
    /\ proc' = ProcCrashed(proc)
    /\ UNCHANGED <<tasks, env, config, pc, tool, args, payload, request, net, outcome, client, sent>>

\* run_server calls setup_environment
SetupEnvironment ==
    /\ proc.phase = "imported"
    /\ proc.entry = "main"
    /\ proc' = ProcChecked(proc, env)
    /\ UNCHANGED <<tasks, env, config, pc, tool, args, payload, request, net, outcome, client, sent>>

\* run_server: setup_environment returned False, sys.exit(1)
ExitMissing ==
    /\ proc.phase = "checked"
    /\ ~proc.setup_ok
    /\ proc' = ProcExited(proc)
    /\ UNCHANGED <<tasks, env, config, pc, tool, args, payload, request, net, outcome, client, sent>>

\* run_server: setup_environment returned True, the transport is started
RunServer ==
    /\ proc.phase = "checked"
    /\ proc.setup_ok
    /\ proc' = ProcRunning(proc)
    /\ UNCHANGED <<tasks, env, config, pc, tool, args, payload, request, net, outcome, client, sent>>

\* server.py run as a script: mcp.run() with no check of the environment
ServerMain ==
    /\ proc.phase = "imported"
    /\ proc.entry = "server"
    /\ proc' = ProcServerMain(proc)
    /\ UNCHANGED <<tasks, env, config, pc, tool, args, payload, request, net, outcome, client, sent>>

StartQueryCall == QueryCallOn(StartQueryArgs)

StartRetrieveCall == RetrieveCallOn(StartRetrieveArgs)

StartNext ==
    \/ Import \/ ImportFails
    \/ SetupEnvironment \/ ExitMissing \/ RunServer \/ ServerMain
    \/ StartQueryCall \/ StartRetrieveCall
    \/ ListKnowledgeBasesCall \/ KbStatusCall \/ WorkspaceStructureCall
    \/ Respond \/ Fail \/ Deliver

StartSpec == StartInit /\ [][StartNext]_vars

(***************************************************************************)
(* The concurrent specification: the host issues invocations while others  *)
(* are awaiting their response.  Each invocation is a coroutine of the     *)
(* event loop; it runs without interruption from its call to the await in  *)
(* make_api_request and from its resumption to its return.  Its payload,   *)
(* its client and its connection are locals of its own frame; the only     *)
(* module-level object the functions read is config.                       *)
(***************************************************************************)
\* the arguments and network outcomes of the concurrent specification
ConcQueryArgs ==
    [ workspace_id         : {JStr("ws-1")},
      query                : {JStr("what is x")},
      knowledge_bases      : {JNull},
      model                : {JNull, JStr("gpt-4o")},
      conversation_history : {JNull},
      top_k                : {JNull},
      preferred_language   : {JNull},
      message_id           : {JNull} ]

ConcRetrieveArgs ==
    [ workspace_id    : {JStr("ws-2")},
      query           : {JStr("what is x")},
      knowledge_bases : {JNull},
      top_k           : {JNull, JInt(1)} ]

ConcWorkspaces == {"ws-1"}

ConcNetOutcomes ==
    { [kind |-> "response",
       resp |-> [status |-> 200, text |-> b, redirect_raises |-> FALSE]] :
         b \in {"{\"status\":\"ok\"}", "{\"dataSources\":[\"kb-1\"],\"documents\":[]}"} }
    \cup { [kind |-> "response",
            resp |-> [status |-> 500, text |-> "not found", redirect_raises |-> FALSE]] }
    \cup { [kind |-> "exception",
            exc |-> [cls |-> "ConnectError", msg |-> "All connection attempts failed"]] }

\* the frame of a coroutine suspended at the await of make_api_request: the
\* client scope is open and its one request is on the client's connection
TaskStarted(tl, a, pl, req) ==
    [ pc |-> "awaiting", tool |-> tl, args |-> a, payload |-> pl,
      request |-> req, answer |-> JNull, net |-> JNull, outcome |-> JNull,
      client |-> "open", sent |-> 1 ]

\* the frame after the await has resumed with network outcome n and the
\* function has run to its return
TaskFinished(f, cfg, n) ==
    [ f EXCEPT !.pc = "done",
               !.net = n,
               !.client = ClientScopeExit(make_api_request_recv(n)),
               !.outcome = ToolFinish(f.tool, f.payload, cfg, make_api_request_recv(n)) ]

\* query_knowledge_base with its payload in a module-level dict that every
\* invocation fills in place: the invocations in flight see the new payload
TaskQueryCall_SharedPayload(t) ==
    /\ proc.phase = "running"
    /\ tasks[t].pc = "idle"
    /\ \E a \in ConcQueryArgs :
         tasks' = [u \in Tasks |->
                     IF u = t
                     THEN TaskStarted("query", a, QueryPayload(a),
                            make_api_request_send(config, "/query",
                                                  JObj(QueryPayload(a)), "POST"))
                     ELSE IF tasks[u].tool \in {"query", "retrieve"}
                     THEN [tasks[u] EXCEPT !.payload = QueryPayload(a)]
                     ELSE tasks[u]]
    /\ UNCHANGED <<env, proc, config, pc, tool, args, payload, request, net,
                   outcome, client, sent>>

\* the host calls query_knowledge_base while other invocations are in flight
TaskQueryCall(t) ==
    /\ proc.phase = "running"
    /\ tasks[t].pc = "idle"
    /\ \E a \in ConcQueryArgs :
         tasks' = [tasks EXCEPT ![t] =
                     TaskStarted("query", a, QueryPayload(a),
                        make_api_request_send(config, "/query",
                                              JObj(QueryPayload(a)), "POST"))]
    /\ UNCHANGED <<env, proc, config, pc, tool, args, payload, request, net,
                   outcome, client, sent>>

\* the host calls retrieve_from_knowledge_base
TaskRetrieveCall(t) ==
    /\ proc.phase = "running"
    /\ tasks[t].pc = "idle"
    /\ \E a \in ConcRetrieveArgs :
         tasks' = [tasks EXCEPT ![t] =
                     TaskStarted("retrieve", a, RetrievePayload(a, config),
                        make_api_request_send(config, "/retrieve",
                                              JObj(RetrievePayload(a, config)), "POST"))]
    /\ UNCHANGED <<env, proc, config, pc, tool, args, payload, request, net,
                   outcome, client, sent>>

\* the host reads the knowledge_bases resource
TaskListKnowledgeBasesCall(t) ==
    /\ proc.phase = "running"
    /\ tasks[t].pc = "idle"
    /\ \E w \in ConcWorkspaces :
         tasks' = [tasks EXCEPT ![t] =
                     TaskStarted("list_knowledge_bases", [workspace_id |-> w], JNull,
                        make_api_request_send(config, ViewPath(w), JNull, "GET"))]
    /\ UNCHANGED <<env, proc, config, pc, tool, args, payload, request, net,
                   outcome, client, sent>>

\* the host reads the status resource
TaskKbStatusCall(t) ==
    /\ proc.phase = "running"
    /\ tasks[t].pc = "idle"
    /\ \E w \in ConcWorkspaces, k \in ResourceKbIds :
         tasks' = [tasks EXCEPT ![t] =
                     TaskStarted("kb_status", [workspace_id |-> w, kb_id |-> k], JNull,
                        make_api_request_send(config, KbStatusPath(w, k), JNull, "GET"))]
    /\ UNCHANGED <<env, proc, config, pc, tool, args, payload, request, net,
                   outcome, client, sent>>

\* the host reads the structure resource
TaskWorkspaceStructureCall(t) ==
    /\ proc.phase = "running"
    /\ tasks[t].pc = "idle"
    /\ \E w \in ConcWorkspaces :
         tasks' = [tasks EXCEPT ![t] =
                     TaskStarted("workspace_structure", [workspace_id |-> w], JNull,
                        make_api_request_send(config, ViewPath(w), JNull, "GET"))]
    /\ UNCHANGED <<env, proc, config, pc, tool, args, payload, request, net,
                   outcome, client, sent>>

\* the network gives the outcome of the request on the connection of t's
\* client: the backend's response to that request, or a transport failure
TaskAnswer(t) ==
    /\ tasks[t].pc = "awaiting"
    /\ tasks[t].answer = JNull
    /\ \E n \in ConcNetOutcomes :
         tasks' = [tasks EXCEPT ![t].answer = [for |-> tasks[t].request, outcome |-> n]]
    /\ UNCHANGED <<env, proc, config, pc, tool, args, payload, request, net,
                   outcome, client, sent>>

\* the event loop resumes t at its await with the outcome on its own
\* client's connection; t runs to its return
TaskResume(t) ==
    /\ tasks[t].pc = "awaiting"
    /\ tasks[t].answer # JNull
    /\ tasks' = [tasks EXCEPT ![t] = TaskFinished(tasks[t], config, tasks[t].answer.outcome)]
    /\ UNCHANGED <<env, proc, config, pc, tool, args, payload, request, net,
                   outcome, client, sent>>

\* the host takes t's outcome; the frame is discarded
TaskDeliver(t) ==
    /\ tasks[t].pc = "done"
    /\ tasks' = [tasks EXCEPT ![t] = IdleTask]
    /\ UNCHANGED <<env, proc, config, pc, tool, args, payload, request, net,
                   outcome, client, sent>>

ConcNext ==
    \E t \in Tasks :
        \/ TaskQueryCall(t) \/ TaskRetrieveCall(t)
        \/ TaskListKnowledgeBasesCall(t) \/ TaskKbStatusCall(t)
        \/ TaskWorkspaceStructureCall(t)
        \/ TaskAnswer(t) \/ TaskResume(t) \/ TaskDeliver(t)

ConcSpec == Init /\ [][ConcNext]_vars

(***************************************************************************)
(* Properties.                                                             *)
(***************************************************************************)
\* the running or finished invocation is of the given tool
Running(tl) == pc \in {"awaiting", "done"} /\ tool = tl

\* the body of the request that was issued, as a mapping
SentBody == request.body.v

\* the backend answered with a status the client raises as a status error
StatusErrorSeen ==
    /\ net.kind = "response"
    /\ \/ net.resp.status >= 400
       \/ net.resp.status \in 300..399 /\ net.resp.redirect_raises

\* the backend answered with a status that is not raised
StatusAccepted == net.kind = "response" /\ ~StatusErrorSeen

\* C1: every finished invocation of either tool gave its caller a mapping
\* and let no exception out, whatever the backend did (object body, body
\* that is not an object, undecodable body, error status, timeout,
\* connection failure).
C1_NeverRaises ==
    (pc = "done" /\ tool \in {"query", "retrieve"}) => outcome.kind = "return" /\ outcome.value.t = "obj"

\* C1 witness: a 200 answer whose body decodes to a list, and the tool
\* still returned a mapping.
C1_Witness ==
    /\ pc = "done"
    /\ tool \in {"query", "retrieve"}
    /\ net.kind = "response"
    /\ net.resp.status = 200
    /\ net.resp.text = "[\"doc1\"]"
    /\ outcome.kind = "return"
    /\ outcome.value.t = "obj"

\* C2: a finished query returned a mapping that either has
\* _debug.endpoint_used = "/query" and _debug.query_parameters.streaming =
\* false, or has the key error.
C2_QueryResultShape ==
    (pc = "done" /\ tool = "query") =>
        /\ outcome.kind = "return"
        /\ outcome.value.t = "obj"
        /\ LET res == outcome.value.v
           IN  \/ "error" \in DOMAIN res
               \/ /\ "_debug" \in DOMAIN res
                  /\ res["_debug"].t = "obj"
                  /\ "endpoint_used" \in DOMAIN res["_debug"].v
                  /\ res["_debug"].v["endpoint_used"] = JStr("/query")
                  /\ "query_parameters" \in DOMAIN res["_debug"].v
                  /\ res["_debug"].v["query_parameters"].t = "obj"
                  /\ "streaming" \in DOMAIN res["_debug"].v["query_parameters"].v
                  /\ res["_debug"].v["query_parameters"].v["streaming"] = JBool(FALSE)

\* C2 witness: a successful query called with every optional argument set.
C2_Witness ==
    /\ pc = "done"
    /\ tool = "query"
    /\ \A k \in {"knowledge_bases", "model", "conversation_history", "top_k",
                 "preferred_language", "message_id"} : Truthy(args[k])
    /\ outcome.kind = "return"
    /\ "error" \notin DOMAIN outcome.value.v
    /\ outcome.value.v["_debug"].v["endpoint_used"] = JStr("/query")

\* C3: the body query_knowledge_base sends always has streaming = false.
C3_StreamingFalse ==
    Running("query") =>
        /\ request.method = "POST"
        /\ request.body.t = "obj"
        /\ "streaming" \in DOMAIN SentBody
        /\ SentBody["streaming"] = JBool(FALSE)

\* C3 witness: a query request in flight with every optional argument set.
C3_Witness ==
    /\ pc = "awaiting"
    /\ tool = "query"
    /\ \A k \in {"knowledge_bases", "model", "conversation_history", "top_k",
                 "preferred_language", "message_id"} : Truthy(args[k])
    /\ SentBody["streaming"] = JBool(FALSE)

\* the optional arguments of query_knowledge_base
QueryOptionals ==
    {"knowledge_bases", "conversation_history", "top_k", "model",
     "preferred_language", "message_id"}

\* a caller's value that is neither absent, nor an empty list, nor an empty
\* string, nor 0
Supplied(x) ==
    /\ x # JNull
    /\ x # JStr("")
    /\ x # JList(<<>>)
    /\ x # JInt(0)

\* C4: the query payload's keys are workspace_id, query, streaming and
\* exactly those optionals whose value is supplied and truthy; no key holds
\* null; every key but streaming holds the caller's value.
C4_QueryPayloadKeys ==
    Running("query") =>
        /\ DOMAIN SentBody = {"workspace_id", "query", "streaming"}
                               \cup {k \in QueryOptionals : Supplied(args[k])}
        /\ \A k \in DOMAIN SentBody : SentBody[k].t # "null"
        /\ \A k \in DOMAIN SentBody \ {"streaming"} : SentBody[k] = args[k]

\* C4 witness: top_k = 0, an empty model and an empty list are dropped while
\* a non-empty message_id is kept.
C4_Witness ==
    /\ Running("query")
    /\ args.top_k = JInt(0)
    /\ args.model = JStr("")
    /\ args.knowledge_bases = JList(<<>>)
    /\ args.conversation_history = JNull
    /\ args.message_id = JStr("m-1")
    /\ DOMAIN SentBody = {"workspace_id", "query", "streaming", "message_id"}

\* C5: the retrieve payload has the key knowledge_bases exactly when the
\* caller gave a non-empty list, and then it holds that list.
C5_RetrieveKnowledgeBases ==
    Running("retrieve") =>
        /\ "knowledge_bases" \in DOMAIN SentBody
             <=> (args.knowledge_bases.t = "list" /\ args.knowledge_bases.v # <<>>)
        /\ "knowledge_bases" \in DOMAIN SentBody
             => SentBody["knowledge_bases"] = args.knowledge_bases

\* C5 witness: retrieve called with an empty list sent no knowledge_bases.
C5_Witness ==
    /\ Running("retrieve")
    /\ args.knowledge_bases = JList(<<>>)
    /\ "knowledge_bases" \notin DOMAIN SentBody

\* C6: the retrieve payload always has top_k, and when the caller gave none
\* it is the configured default_top_k.
C6_RetrieveDefaultTopK ==
    Running("retrieve") =>
        /\ "top_k" \in DOMAIN SentBody
        /\ args.top_k = JNull => SentBody["top_k"] = JInt(config.default_top_k)

\* C6 witness: no top_k given under a configured default of 7.
C6_Witness ==
    /\ Running("retrieve")
    /\ args.top_k = JNull
    /\ config.default_top_k = 7
    /\ SentBody["top_k"] = JInt(7)

\* C7 as stated: whenever retrieve is given a top_k, whatever the integer,
\* the payload's top_k is that value; the default appears only when none
\* was given.
C7_AsStated ==
    (Running("retrieve") /\ args.top_k # JNull) =>
        SentBody["top_k"] = args.top_k

\* C7 as amended: whenever retrieve is given a top_k other than 0 (negative
\* values included) the payload's top_k is that value; when no top_k or a
\* top_k of 0 is given, the payload's top_k is the configured default_top_k.
C7_RetrieveTopK ==
    Running("retrieve") =>
        /\ (args.top_k # JNull /\ args.top_k # JInt(0))
              => SentBody["top_k"] = args.top_k
        /\ (args.top_k = JNull \/ args.top_k = JInt(0))
              => SentBody["top_k"] = JInt(config.default_top_k)

\* C7 witness: a top_k of -1 is sent as given, under a default of 7.
C7_Witness ==
    /\ Running("retrieve")
    /\ args.top_k = JInt(-1)
    /\ config.default_top_k = 7
    /\ SentBody["top_k"] = JInt(-1)

\* C8: when the backend's status is raised as a status error, with status S
\* and body text B, either tool returns error = "HTTP S: B" and
\* status_code = S, whether or not B is valid JSON.
C8_StatusErrorMapping ==
    (pc = "done" /\ tool \in {"query", "retrieve"} /\ StatusErrorSeen) =>
        /\ outcome.kind = "return"
        /\ outcome.value.t = "obj"
        /\ {"error", "status_code"} \subseteq DOMAIN outcome.value.v
        /\ outcome.value.v["error"] =
              JStr("HTTP " \o ToString(net.resp.status) \o ": " \o net.resp.text)
        /\ outcome.value.v["status_code"] = JInt(net.resp.status)
        /\ (net.resp.status = 404 /\ net.resp.text = "not found")
              => outcome.value.v["error"] = JStr("HTTP 404: not found")

\* C8 witness: retrieve answered 404 "not found", a body that is not JSON.
C8_Witness ==
    /\ pc = "done"
    /\ tool = "retrieve"
    /\ net.kind = "response"
    /\ net.resp.status = 404
    /\ net.resp.text = "not found"
    /\ outcome.value.v["error"] = JStr("HTTP 404: not found")
    /\ outcome.value.v["status_code"] = JInt(404)

\* the text Python gives for the failure of an accepted response: the
\* decoder's message, or the message of the failed item assignment
AcceptedFailureText(text) ==
    CASE text \in {"not found", ""} -> "Expecting value: line 1 column 1 (char 0)"
      [] text = "[\"doc1\"]" -> "list indices must be integers or slices, not str"
      [] text = "\"ok\"" -> "'str' object does not support item assignment"
      [] text = "7" -> "'int' object does not support item assignment"
      [] text = "null" -> "'NoneType' object does not support item assignment"

\* the finished invocation failed otherwise than by a status error
GeneralFailureSeen ==
    \/ net.kind = "exception"
    \/ /\ StatusAccepted
       /\ net.resp.text \in {"not found", "", "[\"doc1\"]", "\"ok\"", "7", "null"}

\* the finished invocation failed
FailureSeen == StatusErrorSeen \/ GeneralFailureSeen

\* the metadata block of a returned mapping
DebugOf(res) == res["_debug"].v

\* C9: a failure that is not a status error (timeout, refused connection,
\* DNS failure, undecodable body, body that is not an object) returns a
\* mapping whose error is the failure's text, whose metadata has error_type
\* "general_error", and which has no status_code; and the result of a failed
\* invocation has status_code exactly when its error_type is "http_error".
C9_GeneralErrorMapping ==
    /\ (pc = "done" /\ tool \in {"query", "retrieve"} /\ GeneralFailureSeen) =>
          /\ outcome.kind = "return"
          /\ outcome.value.t = "obj"
          /\ "error" \in DOMAIN outcome.value.v
          /\ outcome.value.v["error"] =
                IF net.kind = "exception" THEN JStr(net.exc.msg)
                ELSE JStr(AcceptedFailureText(net.resp.text))
          /\ DebugOf(outcome.value.v)["error_type"] = JStr("general_error")
          /\ "status_code" \notin DOMAIN outcome.value.v
    /\ (pc = "done" /\ tool \in {"query", "retrieve"} /\ FailureSeen) =>
          ("status_code" \in DOMAIN outcome.value.v
              <=> DebugOf(outcome.value.v)["error_type"] = JStr("http_error"))

\* C9 witness: retrieve met a DNS failure and reported it as a general
\* error without status_code.
C9_Witness ==
    /\ pc = "done"
    /\ tool = "retrieve"
    /\ net.kind = "exception"
    /\ net.exc.msg = "[Errno -2] Name or service not known"
    /\ outcome.value.v["error"] = JStr("[Errno -2] Name or service not known")
    /\ DebugOf(outcome.value.v)["error_type"] = JStr("general_error")
    /\ "status_code" \notin DOMAIN outcome.value.v

\* C10 as stated: a failed query returns its metadata under the field named
\* debug, and its fields are error, optionally status_code, and debug.
C10_AsStated ==
    (pc = "done" /\ tool = "query" /\ FailureSeen) =>
        /\ "debug" \in DOMAIN outcome.value.v
        /\ DOMAIN outcome.value.v \subseteq {"error", "status_code", "debug"}

\* C10 as amended: a failed query returns its metadata under the field named
\* _debug, holding exactly query_parameters (the payload that was built),
\* endpoint_used "/query" and error_type; the result's fields are error,
\* optionally status_code, and _debug.
C10_QueryErrorShape ==
    (pc = "done" /\ tool = "query" /\ FailureSeen) =>
        /\ outcome.kind = "return"
        /\ DOMAIN outcome.value.v \in
              { {"error", "_debug"}, {"error", "status_code", "_debug"} }
        /\ outcome.value.v["error"].t = "str"
        /\ outcome.value.v["_debug"].t = "obj"
        /\ DOMAIN DebugOf(outcome.value.v) =
              {"query_parameters", "endpoint_used", "error_type"}
        /\ DebugOf(outcome.value.v)["query_parameters"] = JObj(payload)
        /\ DebugOf(outcome.value.v)["query_parameters"] = request.body
        /\ DebugOf(outcome.value.v)["endpoint_used"] = JStr("/query")
        /\ DebugOf(outcome.value.v)["error_type"] \in
              {JStr("http_error"), JStr("general_error")}

\* C10 witness: a query answered 500 returned error, status_code and _debug.
C10_Witness ==
    /\ pc = "done"
    /\ tool = "query"
    /\ net.kind = "response"
    /\ net.resp.status = 500
    /\ DOMAIN outcome.value.v = {"error", "status_code", "_debug"}
    /\ DebugOf(outcome.value.v)["error_type"] = JStr("http_error")

\* what query_knowledge_base returns for the network outcome of the finished
\* invocation, called with the same workspace_id, query, knowledge_bases and
\* top_k and no other optional
QueryTwin ==
    LET a == [ workspace_id |-> args.workspace_id, query |-> args.query,
               knowledge_bases |-> args.knowledge_bases, model |-> JNull,
               conversation_history |-> JNull, top_k |-> args.top_k,
               preferred_language |-> JNull, message_id |-> JNull ]
    IN  QueryFinish(QueryPayload(a), config, make_api_request_recv(net)).value.v

\* C11 as stated: for the same backend failure the error result of retrieve
\* has the same field names, at the top and in its metadata, and the same
\* error, status_code and error_type as the error result of query, with
\* endpoint_used "/retrieve".
C11_AsStated ==
    (pc = "done" /\ tool = "retrieve" /\ FailureSeen) =>
        /\ DOMAIN outcome.value.v = DOMAIN QueryTwin
        /\ DOMAIN DebugOf(outcome.value.v) = DOMAIN DebugOf(QueryTwin)

\* C11 as amended: for the same backend failure the error result of retrieve
\* has the same top-level fields and the same error, status_code and
\* error_type values as that of query; its metadata differs in endpoint_used
\* being "/retrieve" and in reporting the payload under retrieval_parameters
\* where query reports it under query_parameters.
C11_SameNormalization ==
    (pc = "done" /\ tool = "retrieve" /\ FailureSeen) =>
        /\ DOMAIN outcome.value.v = DOMAIN QueryTwin
        /\ outcome.value.v["error"] = QueryTwin["error"]
        /\ "status_code" \in DOMAIN QueryTwin =>
              outcome.value.v["status_code"] = QueryTwin["status_code"]
        /\ DebugOf(outcome.value.v)["error_type"] = DebugOf(QueryTwin)["error_type"]
        /\ DOMAIN DebugOf(outcome.value.v) =
              (DOMAIN DebugOf(QueryTwin) \ {"query_parameters"})
                  \cup {"retrieval_parameters"}
        /\ DebugOf(outcome.value.v)["retrieval_parameters"] = JObj(payload)
        /\ DebugOf(outcome.value.v)["endpoint_used"] = JStr("/retrieve")
        /\ DebugOf(QueryTwin)["endpoint_used"] = JStr("/query")

\* C11 witness: retrieve answered 500, with status_code 500 like query.
C11_Witness ==
    /\ pc = "done"
    /\ tool = "retrieve"
    /\ net.kind = "response"
    /\ net.resp.status = 500
    /\ outcome.value.v["status_code"] = JInt(500)
    /\ QueryTwin["status_code"] = JInt(500)
    /\ "retrieval_parameters" \in DOMAIN DebugOf(outcome.value.v)

\* the backend answered with an accepted status and a body that decodes to
\* an object
SuccessSeen ==
    /\ StatusAccepted
    /\ JsonLoads(net.resp.text).ok
    /\ JsonLoads(net.resp.text).value.t = "obj"

\* the object the backend's body decodes to
BackendObject == JsonLoads(net.resp.text).value.v

\* C12: on success the result of either tool is the backend's object plus
\* _debug: every backend field other than _debug is there unchanged, and no
\* key other than _debug is added or removed.
C12_PassThrough ==
    (pc = "done" /\ tool \in {"query", "retrieve"} /\ SuccessSeen) =>
        /\ outcome.kind = "return"
        /\ DOMAIN outcome.value.v = DOMAIN BackendObject \cup {"_debug"}
        /\ \A k \in DOMAIN BackendObject \ {"_debug"} :
              outcome.value.v[k] = BackendObject[k]

\* C12 witness: a backend object with the fields error and status_code came
\* back with both, plus _debug.
C12_Witness ==
    /\ pc = "done"
    /\ tool = "retrieve"
    /\ SuccessSeen
    /\ DOMAIN BackendObject = {"error", "status_code"}
    /\ DOMAIN outcome.value.v = {"error", "status_code", "_debug"}
    /\ outcome.value.v["error"] = JStr("no such kb")

\* C13: on success _debug holds, for query, exactly query_parameters (the
\* body that was sent), endpoint_used "/query" and config_used with base_url,
\* default_model, default_top_k, default_language; for retrieve, exactly
\* retrieval_parameters (the body that was sent), endpoint_used "/retrieve"
\* and config_used with base_url and default_top_k.
C13_SuccessDebug ==
    /\ (pc = "done" /\ tool = "query" /\ SuccessSeen) =>
          /\ outcome.value.v["_debug"].t = "obj"
          /\ DOMAIN DebugOf(outcome.value.v) =
                {"query_parameters", "endpoint_used", "config_used"}
          /\ DebugOf(outcome.value.v)["query_parameters"] = request.body
          /\ DebugOf(outcome.value.v)["endpoint_used"] = JStr("/query")
          /\ DebugOf(outcome.value.v)["config_used"] =
                JObj([ base_url         |-> JStr(config.base_url),
                       default_model    |-> JStr(config.default_model),
                       default_top_k    |-> JInt(config.default_top_k),
                       default_language |-> JStr(config.default_language) ])
    /\ (pc = "done" /\ tool = "retrieve" /\ SuccessSeen) =>
          /\ outcome.value.v["_debug"].t = "obj"
          /\ DOMAIN DebugOf(outcome.value.v) =
                {"retrieval_parameters", "endpoint_used", "config_used"}
          /\ DebugOf(outcome.value.v)["retrieval_parameters"] = request.body
          /\ DebugOf(outcome.value.v)["endpoint_used"] = JStr("/retrieve")
          /\ DebugOf(outcome.value.v)["config_used"] =
                JObj([ base_url      |-> JStr(config.base_url),
                       default_top_k |-> JInt(config.default_top_k) ])

\* C13 witness: a successful retrieve with knowledge_bases given reports the
\* body it sent and a config_used of two keys.
C13_Witness ==
    /\ pc = "done"
    /\ tool = "retrieve"
    /\ SuccessSeen
    /\ "knowledge_bases" \in DOMAIN SentBody
    /\ DebugOf(outcome.value.v)["retrieval_parameters"] = request.body
    /\ DOMAIN DebugOf(outcome.value.v)["config_used"].v = {"base_url", "default_top_k"}

\* the three resources
Resources == {"list_knowledge_bases", "kb_status", "workspace_structure"}

\* C14: every tool call and resource read opens one client scope and issues
\* exactly one request; the scope is open while the request is awaited and
\* closed when the invocation returns, on success and on every failure; no
\* outcome adds a second request.
C14_SingleAttempt ==
    /\ pc = "idle" => (client = "none" /\ sent = 0)
    /\ pc = "awaiting" => (client = "open" /\ sent = 1)
    /\ pc = "done" => (client = "closed" /\ sent = 1)

\* C14 witness: a resource read that met a transport failure returned with
\* its client closed after one request.
C14_Witness ==
    /\ pc = "done"
    /\ tool = "kb_status"
    /\ net.kind = "exception"
    /\ client = "closed"
    /\ sent = 1

\* C15: query POSTs its payload to {base_url}/query, retrieve POSTs its
\* payload to {base_url}/retrieve; the resources issue GET requests without
\* a body; no tool issues a GET and no resource a POST.
C15_MethodsAndUrls ==
    /\ Running("query") =>
          /\ request.method = "POST"
          /\ request.url = config.base_url \o "/query"
          /\ request.url = "http://kb/query"
          /\ request.body = JObj(payload)
    /\ Running("retrieve") =>
          /\ request.method = "POST"
          /\ request.url = config.base_url \o "/retrieve"
          /\ request.url = "http://kb/retrieve"
          /\ request.body = JObj(payload)
    /\ (pc \in {"awaiting", "done"} /\ tool \in Resources) =>
          /\ request.method = "GET"
          /\ request.body = JNull

\* C15 witness: the status resource issued a GET without body.
C15_Witness ==
    /\ pc = "awaiting"
    /\ tool = "kb_status"
    /\ request.method = "GET"
    /\ request.url = "http://kb/kb_status/ws-2/kb-1"
    /\ request.body = JNull

\* C16: on success the list resource GETs /view/{workspace_id} and returns
\* the serialization of the dataSources field alone ("[]" when absent); the
\* status resource GETs /kb_status/{workspace_id}/{kb_id} and the structure
\* resource GETs /view/{workspace_id}, each returning the serialization of
\* the whole decoded object.
C16_ResourceSuccess ==
    /\ (pc = "done" /\ tool = "list_knowledge_bases" /\ SuccessSeen) =>
          /\ request.method = "GET"
          /\ request.url = config.base_url \o "/view/" \o args.workspace_id
          /\ outcome = Return(JStr(JsonDumps(
                 IF "dataSources" \in DOMAIN BackendObject
                 THEN BackendObject["dataSources"] ELSE JList(<<>>))))
          /\ net.resp.text = "{\"dataSources\":[\"kb-1\"],\"documents\":[]}"
                => outcome.value.v = "[\n  \"kb-1\"\n]"
          /\ net.resp.text = "{\"status\":\"ok\"}" => outcome.value.v = "[]"
    /\ (pc = "done" /\ tool = "kb_status" /\ SuccessSeen) =>
          /\ request.method = "GET"
          /\ request.url = config.base_url \o "/kb_status/" \o args.workspace_id
                              \o "/" \o args.kb_id
          /\ outcome = Return(JStr(JsonDumps(JObj(BackendObject))))
          /\ net.resp.text = "{\"status\":\"ok\"}"
                => outcome.value.v = "{\n  \"status\": \"ok\"\n}"
    /\ (pc = "done" /\ tool = "workspace_structure" /\ SuccessSeen) =>
          /\ request.method = "GET"
          /\ request.url = config.base_url \o "/view/" \o args.workspace_id
          /\ outcome = Return(JStr(JsonDumps(JObj(BackendObject))))
          /\ net.resp.text = "{\"dataSources\":[\"kb-1\"],\"documents\":[]}"
                => outcome.value.v =
                     "{\n  \"dataSources\": [\n    \"kb-1\"\n  ],\n  \"documents\": []\n}"

\* C16 witness: the list resource returned only the dataSources of a /view
\* answer that has other fields too.
C16_Witness ==
    /\ pc = "done"
    /\ tool = "list_knowledge_bases"
    /\ SuccessSeen
    /\ DOMAIN BackendObject = {"dataSources", "documents"}
    /\ outcome.value.v = "[\n  \"kb-1\"\n]"

\* the text a resource's error string starts with
ErrorPrefix(res) ==
    CASE res = "list_knowledge_bases" -> "Error retrieving knowledge bases: "
      [] res = "kb_status" -> "Error retrieving knowledge base status: "
      [] res = "workspace_structure" -> "Error retrieving workspace structure: "

\* str begins with prefix
StartsWith(str, prefix) ==
    Len(str) >= Len(prefix) /\ SubSeq(str, 1, Len(prefix)) = prefix

\* an accepted answer whose body does not decode
UndecodableSeen == StatusAccepted /\ ~JsonLoads(net.resp.text).ok

\* an accepted answer whose body decodes to something that is not an object
NonObjectSeen ==
    /\ StatusAccepted
    /\ JsonLoads(net.resp.text).ok
    /\ JsonLoads(net.resp.text).value.t # "obj"

\* C17 as stated: on a status error, timeout, connection failure,
\* undecodable body or decoded body that is not an object, each resource
\* returns a text string that starts with its error prefix.
C17_AsStated ==
    (pc = "done" /\ tool \in Resources
       /\ (StatusErrorSeen \/ net.kind = "exception" \/ UndecodableSeen \/ NonObjectSeen)) =>
        /\ outcome.kind = "return"
        /\ outcome.value.t = "str"
        /\ StartsWith(outcome.value.v, ErrorPrefix(tool))

\* C17 as amended: every resource read returns a text string and never
\* raises.  On a status error, timeout, connection failure or undecodable
\* body the text is the resource's error prefix followed by the failure's
\* description.  A decoded body that is not an object gives the prefixed
\* error only in the knowledge-base list resource; the status and structure
\* resources return its serialization, without prefix.
C17_ResourceErrors ==
    (pc = "done" /\ tool \in Resources) =>
        /\ outcome.kind = "return"
        /\ outcome.value.t = "str"
        /\ StatusErrorSeen =>
              outcome.value.v = ErrorPrefix(tool) \o "status error"
        /\ net.kind = "exception" =>
              outcome.value.v = ErrorPrefix(tool) \o net.exc.msg
        /\ UndecodableSeen =>
              outcome.value.v = ErrorPrefix(tool)
                                  \o "Expecting value: line 1 column 1 (char 0)"
        /\ (NonObjectSeen /\ tool = "list_knowledge_bases") =>
              /\ StartsWith(outcome.value.v, ErrorPrefix(tool))
              /\ net.resp.text = "null" =>
                    outcome.value.v = "Error retrieving knowledge bases: "
                        \o "'NoneType' object has no attribute 'get'"
        /\ (NonObjectSeen /\ tool # "list_knowledge_bases") =>
              /\ outcome.value.v = JsonDumps(JsonLoads(net.resp.text).value)
              /\ ~StartsWith(outcome.value.v, "Error retrieving")
              /\ net.resp.text = "null" => outcome.value.v = "null"

\* C17 witness: the structure resource met a DNS failure and returned the
\* prefixed text.
C17_Witness ==
    /\ pc = "done"
    /\ tool = "workspace_structure"
    /\ net.kind = "exception"
    /\ outcome.value.v =
          "Error retrieving workspace structure: [Errno -2] Name or service not known"

\* ONLYSAIDKB_BASE_URL is not in the environment
BaseUrlMissing == env["ONLYSAIDKB_BASE_URL"] = JNull

\* the line is among those printed
Printed(line) == \E i \in 1..Len(proc.stdout) : proc.stdout[i] = line

C19_NoFallbackUrl ==
    BaseUrlMissing =>
        /\ proc.phase # "running"
        /\ request # JNull =>
              ~StartsWith(request.url, "http://onlysaid-dev.com/api/kb")

\* C20: once created, the config is never changed by any startup step, tool
\* call or resource read; it holds what the environment gave at startup,
\* and every request and every default substitution reads it.
C20_ConfigImmutable ==
    /\ [][proc.phase # "start" => config' = config]_vars
    /\ [](proc.phase \notin {"start", "crashed"} => config = OnlysaidKBConfig(env))
    /\ [](request # JNull =>
            /\ StartsWith(request.url, config.base_url)
            /\ request.timeout = config.timeout)
    /\ []((Running("retrieve") /\ args.top_k = JNull) =>
            SentBody["top_k"] = JInt(config.default_top_k))

\* C20 witness: a retrieve finished under a config read from an environment
\* that sets the default top_k to 7 and the timeout to 5.
C20_Witness ==
    /\ pc = "done"
    /\ tool = "retrieve"
    /\ config.default_top_k = 7
    /\ config.timeout = 5
    /\ request.timeout = 5

(***************************************************************************)
(* Concurrent invocations.                                                 *)
(***************************************************************************)
\* the payload the tool tl builds from arguments a when it runs alone
SoloPayload(tl, a, cfg) ==
    CASE tl = "query" -> QueryPayload(a)
      [] tl = "retrieve" -> RetrievePayload(a, cfg)
      [] OTHER -> JNull

\* the request an invocation issues when it runs alone
SoloRequest(tl, a, cfg) ==
    CASE tl = "query" ->
           make_api_request_send(cfg, "/query", JObj(QueryPayload(a)), "POST")
      [] tl = "retrieve" ->
           make_api_request_send(cfg, "/retrieve", JObj(RetrievePayload(a, cfg)), "POST")
      [] tl = "kb_status" ->
           make_api_request_send(cfg, KbStatusPath(a.workspace_id, a.kb_id), JNull, "GET")
      [] OTHER ->
           make_api_request_send(cfg, ViewPath(a.workspace_id), JNull, "GET")

\* the outcome an invocation gives when it runs alone and the network gives n
SoloOutcome(tl, a, cfg, n) ==
    ToolFinish(tl, SoloPayload(tl, a, cfg), cfg, make_api_request_recv(n))

\* the payload a finished tool invocation reports in its metadata
ReportedPayload(f) ==
    IF f.tool = "query"
    THEN DebugOf(f.outcome.value.v)["query_parameters"]
    ELSE DebugOf(f.outcome.value.v)["retrieval_parameters"]

\* C21: under every interleaving of the invocations in flight, each one's
\* payload and request are those of its own arguments, the answer it resumes
\* with is the answer to its own request, its result is the one it gives
\* running alone with that answer, and the payload a tool reports is built
\* from its own arguments only.
C21_NonInterference ==
    \A t \in Tasks :
        /\ tasks[t].pc # "idle" =>
              /\ tasks[t].payload = SoloPayload(tasks[t].tool, tasks[t].args, config)
              /\ tasks[t].request = SoloRequest(tasks[t].tool, tasks[t].args, config)
              /\ tasks[t].sent = 1
        /\ tasks[t].answer # JNull => tasks[t].answer.for = tasks[t].request
        /\ tasks[t].pc = "done" =>
              /\ tasks[t].net = tasks[t].answer.outcome
              /\ tasks[t].outcome =
                    SoloOutcome(tasks[t].tool, tasks[t].args, config, tasks[t].net)
              /\ tasks[t].outcome.kind = "return"
              /\ tasks[t].client = "closed"
              /\ (tasks[t].tool \in {"query", "retrieve"}
                    /\ tasks[t].outcome.value.t = "obj") =>
                    ReportedPayload(tasks[t]) =
                        JObj(SoloPayload(tasks[t].tool, tasks[t].args, config))

\* C21 witness: a query with model gpt-4o has finished with a status error
\* while a retrieve with top_k 1, whose request got a different answer, has
\* finished with the backend's object.
C21_Witness ==
    /\ tasks[1].pc = "done" /\ tasks[1].tool = "query"
    /\ tasks[1].args.model = JStr("gpt-4o")
    /\ tasks[1].net.kind = "response" /\ tasks[1].net.resp.status = 500
    /\ "error" \in DOMAIN tasks[1].outcome.value.v
    /\ tasks[2].pc = "done" /\ tasks[2].tool = "retrieve"
    /\ tasks[2].args.top_k = JInt(1)
    /\ tasks[2].net.kind = "response" /\ tasks[2].net.resp.status = 200
    /\ "error" \notin DOMAIN tasks[2].outcome.value.v

(***************************************************************************)
(* Configuration values.                                                   *)
(***************************************************************************)
\* the named setting is absent from the environment
Absent(name) == env[name] = JNull

\* C22: in the config the process holds, a setting absent from the
\* environment has its literal default (gpt-4, 5, en, 30) and a setting that
\* is present has the environment's value (the integer settings, the integer
\* the value is the decimal literal of); requests carry that timeout.
C22_Defaults ==
    config # JNull =>
        /\ config.default_model =
              (IF Absent("ONLYSAIDKB_DEFAULT_MODEL") THEN "gpt-4"
               ELSE env["ONLYSAIDKB_DEFAULT_MODEL"].v)
        /\ config.default_language =
              (IF Absent("ONLYSAIDKB_DEFAULT_LANGUAGE") THEN "en"
               ELSE env["ONLYSAIDKB_DEFAULT_LANGUAGE"].v)
        /\ IF Absent("ONLYSAIDKB_DEFAULT_TOP_K") THEN config.default_top_k = 5
           ELSE ToString(config.default_top_k) = env["ONLYSAIDKB_DEFAULT_TOP_K"].v
        /\ IF Absent("ONLYSAIDKB_TIMEOUT") THEN config.timeout = 30
           ELSE ToString(config.timeout) = env["ONLYSAIDKB_TIMEOUT"].v
        /\ request # JNull =>
              request.timeout = (IF Absent("ONLYSAIDKB_TIMEOUT") THEN 30
                                 ELSE IntOfStr(env["ONLYSAIDKB_TIMEOUT"].v))

\* C22 witness: a retrieve has finished in a process whose environment sets
\* the language and the default top_k but neither the model nor the timeout.
C22_Witness ==
    /\ pc = "done" /\ tool = "retrieve"
    /\ Absent("ONLYSAIDKB_DEFAULT_MODEL") /\ config.default_model = "gpt-4"
    /\ Absent("ONLYSAIDKB_TIMEOUT") /\ request.timeout = 30
    /\ env["ONLYSAIDKB_DEFAULT_LANGUAGE"] = JStr("zh") /\ config.default_language = "zh"
    /\ env["ONLYSAIDKB_DEFAULT_TOP_K"] = JStr("7") /\ config.default_top_k = 7

\* C23: in every config the process runs with, default_top_k and the timeout
\* are positive integers, whatever the environment holds.
C23_PositiveConfig ==
    config # JNull =>
        /\ config.default_top_k \in Nat \ {0}
        /\ config.timeout \in Nat \ {0}

(***************************************************************************)
(* Empty and defaulted arguments of a query.                               *)
(***************************************************************************)
\* C24 as stated: an empty query string is dropped from the payload of
\* query_knowledge_base, as a top_k of 0 is.
C24_AsStated ==
    (Running("query") /\ args.query = JStr("")) => "query" \notin DOMAIN SentBody

\* C24: query_knowledge_base always sends the query, the empty string
\* included, exactly as the caller gave it; a caller-supplied top_k of 0 is
\* dropped from the payload.
C24_EmptyQuerySent ==
    Running("query") =>
        /\ "query" \in DOMAIN SentBody
        /\ SentBody["query"] = args.query
        /\ payload["query"] = args.query
        /\ args.top_k = JInt(0) => "top_k" \notin DOMAIN SentBody

\* C24 witness: a query with the empty string and top_k 0 has finished; the
\* request carried query "" and no top_k.
C24_Witness ==
    /\ pc = "done" /\ tool = "query"
    /\ args.query = JStr("") /\ args.top_k = JInt(0)
    /\ SentBody["query"] = JStr("")
    /\ "top_k" \notin DOMAIN SentBody

\* the payload the test client (OnlysaidKBTestClient.test_query_knowledge_base
\* of tests/test_onlysaidkb_api.py) builds "matching the server
\* implementation", its workspace and its defaults being those of a and cfg
TestClientQueryPayload(a, cfg) ==
    LET p0 == [ workspace_id       |-> a.workspace_id,
                query              |-> a.query,
                streaming          |-> JBool(FALSE),
                model              |-> PyOr(a.model, JStr(cfg.default_model)),
                top_k              |-> PyOr(a.top_k, JInt(cfg.default_top_k)),
                preferred_language |-> PyOr(a.preferred_language,
                                            JStr(cfg.default_language)) ]
        p1 == AddIfTruthy(p0, "knowledge_bases", a.knowledge_bases)
    IN  AddIfTruthy(p1, "conversation_history", a.conversation_history)

\* C25: for the same arguments (those the test client has, so no message_id)
\* and configuration, the payload query_knowledge_base sends is the payload
\* the test client builds: model, top_k and preferred_language are always
\* present, with the caller's value or else the configured default.
C25_SamePayload ==
    (Running("query") /\ args.message_id = JNull) =>
        /\ SentBody = TestClientQueryPayload(args, config)
        /\ {"model", "top_k", "preferred_language"} \subseteq DOMAIN SentBody

(***************************************************************************)
(* The error key of a result.                                              *)
(***************************************************************************)
\* C26: the result of a finished query_knowledge_base or
\* retrieve_from_knowledge_base has the key error if and only if the
\* invocation failed (status error or general error), whatever object the
\* backend answered with.
C26_ErrorKeyDiscriminates ==
    (pc = "done" /\ tool \in {"query", "retrieve"}) =>
        /\ outcome.kind = "return"
        /\ outcome.value.t = "obj"
        /\ "error" \in DOMAIN outcome.value.v <=> FailureSeen

====
